---- MODULE Spec2Model ----
(***************************************************************************)
(* State machine of the Raiser ink! contract (src/lib.rs): a pooled        *)
(* contribution ledger with a FIFO payout queue.  Every #[ink(message)]    *)
(* that takes &mut self is one action; the &self messages are operators.   *)
(* A message that returns Err or panics leaves the storage as it was.      *)
(***************************************************************************)
EXTENDS Integers, Sequences, FiniteSets

\* ---------------------------------------------------------------- bounds
MaxQuota == 2
MaxRequests == 2
MaxCycle == 2

\* ------------------------------------------------------ program constants
MinAmount == 50

Accounts == {"alice", "bob", "charlie"}
\* the account that deploys the contract (the tests' default caller)
Deployer == "alice"
NoAccount == "none"
\* transferred_value(): one amount below the floor, one at it
Values == {MinAmount - 1, MinAmount}
Quotas == 0..MaxQuota

VARIABLES
    total_supply,
    address_to_amount_funded,
    contributed,
    balance,
    min_amount,
    owner,
    contributors,
    contributors_count,
    requests,
    completed_payouts,
    payout_history,
    max_contributors,
    contribution_cycle,
    ret,
    received,
    paid_out,
    arrival,
    paid_seq,
    cycle_contributed,
    quota_changed,
    only_contributed

\* the contract's storage (struct Raiser)
ledger ==
    <<total_supply, address_to_amount_funded, contributed, balance, min_amount,
      owner, contributors, contributors_count, requests, completed_payouts,
      payout_history, max_contributors, contribution_cycle>>

\* history variables of the verification: funds received and paid out, the
\* order of accepted contributions and of payouts, the identities accepted in
\* the current cycle, and whether the quota changed while the queue was
\* non-empty; only_contributed: whether nothing but accepted contributions by
\* pairwise distinct accounts has happened since construction
ghost == <<received, paid_out, arrival, paid_seq, cycle_contributed, quota_changed>>

vars == <<ledger, ret, ghost, only_contributed>>

\* ----------------------------------------------------- ink::storage::Mapping
\* A Mapping is a partial function; `get` is Some exactly on its domain.
EmptyMapping == [a \in {} |-> TRUE]

MappingHas(m, k) == k \in DOMAIN m

MappingInsert(m, k, v) == [a \in (DOMAIN m) \cup {k} |-> IF a = k THEN v ELSE m[a]]

\* the plausible misreading of `field = Mapping::default()`: every entry gone
MappingDefaultClears(m) == EmptyMapping

\* `self.field = Mapping::default()`.  ink's Mapping is a zero-sized handle
\* (PhantomData) over storage cells keyed by (field key, map key); Default
\* builds another handle for the same field key and touches no cell, so the
\* entries written by `insert` are all still there after the assignment.
MappingDefault(m) == m

\* -------------------------------------------------------------- pure reads
balance_of_in(bal, who) ==
    IF \E i \in 1..Len(bal) : bal[i][1] = who
    THEN bal[CHOOSE i \in 1..Len(bal) :
                 /\ bal[i][1] = who
                 /\ \A j \in 1..(i - 1) : bal[j][1] # who][2]
    ELSE 0

balance_of(who) == balance_of_in(balance, who)

all_paid_in(queue, funded) ==
    \A i \in 1..Len(queue) :
        LET entry == IF MappingHas(funded, queue[i]) THEN funded[queue[i]] ELSE <<0, FALSE>>
        IN  entry[2]

all_paid == all_paid_in(contributors, address_to_amount_funded)

get_next_requester == IF contributors = <<>> THEN NoAccount ELSE contributors[1]

get_max_contributors == max_contributors

get_completed_payouts == completed_payouts

get_payout_history == payout_history

get_total_supply == total_supply

total_contributors == contributors_count

get_contributors == [i \in 1..Len(contributors) |-> <<contributors[i], balance_of(contributors[i])>>]

\* ------------------------------------------------------------ call results
\* what the last call was and what it returned: the message, env().caller(),
\* the AccountId argument (approve_request), the transferred value
\* (contribute) or the accepted new_max (set_max_contributors), and the
\* Result, "Panic" for a trap
Result(op, caller, arg, value, result) ==
    [op |-> op, caller |-> caller, arg |-> arg, value |-> value, result |-> result]

\* ------------------------------------------------------------------- Init
Init ==
    /\ total_supply = 0
    /\ address_to_amount_funded = EmptyMapping
    /\ contributed = EmptyMapping
    /\ balance = <<>>
    /\ min_amount = MinAmount
    /\ owner = Deployer
    /\ contributors = <<>>
    /\ contributors_count = 0
    /\ requests = <<>>
    /\ completed_payouts = 0
    /\ payout_history = <<>>
    /\ max_contributors = 0
    /\ contribution_cycle = 1
    /\ ret = Result("new", owner, NoAccount, 0, "Ok")
    /\ received = 0
    /\ paid_out = 0
    /\ arrival = <<>>
    /\ paid_seq = <<>>
    /\ cycle_contributed = {}
    /\ quota_changed = FALSE
    /\ only_contributed = TRUE

\* -------------------------------------------------- set_max_contributors
\* mutant: the owner test passes for everyone
is_owner_anyone(caller) == TRUE

is_owner(caller) == caller = owner

set_max_contributors(caller, new_max) ==
    /\ only_contributed' = FALSE
    /\ IF ~is_owner(caller)
       THEN /\ ret' = Result("set_max_contributors", caller, NoAccount, 0, "NotContractOwner")
            /\ UNCHANGED <<ledger, ghost>>
       ELSE /\ max_contributors' = new_max
            /\ ret' = Result("set_max_contributors", caller, NoAccount, new_max, "Ok")
            /\ quota_changed' = (quota_changed \/ (contributors # <<>> /\ new_max # max_contributors))
            /\ UNCHANGED <<total_supply, address_to_amount_funded, contributed, balance,
                           min_amount, owner, contributors, contributors_count, requests,
                           completed_payouts, payout_history, contribution_cycle>>
            /\ UNCHANGED <<received, paid_out, arrival, paid_seq, cycle_contributed>>

\* ------------------------------------------------------------ contribute
\* mutant: membership in the queue tested instead of the contributed marker
has_contributed_in_queue(caller) == \E i \in 1..Len(contributors) : contributors[i] = caller

has_contributed(caller) == MappingHas(contributed, caller)

\* mutant: the record stored with the paid flag false
funded_record_unpaid(funded_amount, value) == <<funded_amount + value, FALSE>>

\* &(funded_amount + value, true)
funded_record(funded_amount, value) == <<funded_amount + value, TRUE>>

\* mutant: the pool total overwritten instead of increased
total_supply_overwritten(value) == value

\* self.total_supply += value
total_supply_increased(value) == total_supply + value

contribute(caller, value) ==
    /\ only_contributed' = (only_contributed /\ ~has_contributed(caller) /\ value >= min_amount)
    /\ IF has_contributed(caller)
       THEN /\ ret' = Result("contribute", caller, NoAccount, value, "AlreadyContributed")
            /\ UNCHANGED <<ledger, ghost>>
       ELSE IF value < min_amount
       THEN /\ ret' = Result("contribute", caller, NoAccount, value, "LowAmount")
            /\ UNCHANGED <<ledger, ghost>>
       ELSE LET funded_amount == balance_of(caller)
            IN  /\ contributors_count' = contributors_count + 1
                /\ contributors' = Append(contributors, caller)
                /\ contributed' = MappingInsert(contributed, caller, TRUE)
                /\ address_to_amount_funded' =
                       MappingInsert(address_to_amount_funded, caller, funded_record(funded_amount, value))
                /\ balance' = Append(balance, <<caller, funded_amount + value>>)
                /\ total_supply' = total_supply_increased(value)
                /\ ret' = Result("contribute", caller, NoAccount, value, "Ok")
                /\ received' = received + value
                /\ arrival' = Append(arrival, caller)
                /\ cycle_contributed' = cycle_contributed \cup {caller}
                /\ UNCHANGED <<min_amount, owner, requests, completed_payouts, payout_history,
                               max_contributors, contribution_cycle>>
                /\ UNCHANGED <<paid_out, paid_seq, quota_changed>>

\* --------------------------------------------------------- request_token
\* mutant: `>=` for `==`
payment_phase_at_least == contributors_count >= max_contributors

payment_phase == contributors_count = max_contributors

\* mutant: any queued contributor, not only the first
is_a_contributor(caller) == \E i \in 1..Len(contributors) : contributors[i] = caller

is_next_contributor(caller) == contributors # <<>> /\ caller = contributors[1]

request_token(caller) ==
    /\ only_contributed' = FALSE
    /\ IF payment_phase
       THEN IF is_next_contributor(caller)
            THEN LET amount == total_supply
                 IN  /\ Len(requests) < MaxRequests
                     /\ requests' = Append(requests, <<caller, amount>>)
                     /\ ret' = Result("request_token", caller, NoAccount, 0, "Ok")
                     /\ UNCHANGED <<total_supply, address_to_amount_funded, contributed, balance,
                                    min_amount, owner, contributors, contributors_count,
                                    completed_payouts, payout_history, max_contributors,
                                    contribution_cycle>>
                     /\ UNCHANGED ghost
            ELSE /\ ret' = Result("request_token", caller, NoAccount, 0, "NotNextContributor")
                 /\ UNCHANGED <<ledger, ghost>>
       ELSE /\ ret' = Result("request_token", caller, NoAccount, 0, "NotPaymentPhase")
            /\ UNCHANGED <<ledger, ghost>>

\* ------------------------------------------------ next_contribution_cycle
\* mutant: the inner test on the history length dropped
cycle_complete_all_paid_only(queue, funded, history, count) == all_paid_in(queue, funded)

\* mutant: the history length compared one off
cycle_complete_off_by_one(queue, funded, history, count) ==
    /\ all_paid_in(queue, funded)
    /\ Len(history) + 1 = count

\* the two nested tests of next_contribution_cycle, on the given fields
cycle_complete(queue, funded, history, count) ==
    /\ all_paid_in(queue, funded)
    /\ Len(history) = count

next_contribution_cycle ==
    /\ only_contributed' = FALSE
    /\ LET roll == cycle_complete(contributors, address_to_amount_funded,
                                  payout_history, contributors_count)
       IN  /\ roll => contribution_cycle < MaxCycle
           /\ address_to_amount_funded' =
                  IF roll THEN MappingDefault(address_to_amount_funded) ELSE address_to_amount_funded
           /\ payout_history' = IF roll THEN <<>> ELSE payout_history
           /\ contributors_count' = IF roll THEN 0 ELSE contributors_count
           /\ contribution_cycle' = IF roll THEN contribution_cycle + 1 ELSE contribution_cycle
           /\ completed_payouts' = IF roll THEN 0 ELSE completed_payouts
           /\ ret' = Result("next_contribution_cycle", NoAccount, NoAccount, 0, "Ok")
           /\ cycle_contributed' = IF roll THEN {} ELSE cycle_contributed
           /\ UNCHANGED <<total_supply, contributed, balance, min_amount, owner, contributors,
                          requests, max_contributors>>
           /\ UNCHANGED <<received, paid_out, arrival, paid_seq, quota_changed>>

\* -------------------------------------------------------- approve_request
\* `invoker` is env().caller(), which the message never reads; `caller` is
\* the AccountId the invoker passes as the message's argument.
\* mutant: the queue head left in place
remove_nothing(queue) == queue

\* mutant: contributors.pop() for contributors.remove(0)
remove_last(queue) == SubSeq(queue, 1, Len(queue) - 1)

remove_first(queue) == Tail(queue)

\* mutant: the completed-payout counter left as it was
completed_payouts_kept == completed_payouts

\* self.completed_payouts += 1
completed_payouts_incremented == completed_payouts + 1

\* mutant: the request and the queue head are dropped before the transfer
approve_transfer_failed_after_dequeue(invoker, caller) ==
    /\ ret' = Result("approve_request", invoker, caller, 0, "TransferError")
    /\ requests' = <<>>
    /\ contributors' = Tail(contributors)
    /\ UNCHANGED <<total_supply, address_to_amount_funded, contributed, balance, min_amount,
                   owner, contributors_count, completed_payouts, payout_history,
                   max_contributors, contribution_cycle>>
    /\ UNCHANGED ghost

\* the Err(_e) arm of the transfer
approve_transfer_failed(invoker, caller) ==
    /\ ret' = Result("approve_request", invoker, caller, 0, "TransferError")
    /\ UNCHANGED <<ledger, ghost>>

\* the Ok(_value) arm of the transfer, next_contribution_cycle included
approve_transfer_ok(invoker, caller) ==
    LET requester == requests[1][1]
        amount    == requests[1][2]
        queue     == remove_first(contributors)
        done      == completed_payouts_incremented
        history   == Append(payout_history, <<requester, amount>>)
        roll      == cycle_complete(queue, address_to_amount_funded, history, contributors_count)
    IN  /\ roll => contribution_cycle < MaxCycle
        /\ requests' = <<>>
        /\ contributors' = queue
        /\ contributed' = MappingDefault(contributed)
        /\ address_to_amount_funded' =
               IF roll THEN MappingDefault(address_to_amount_funded) ELSE address_to_amount_funded
        /\ payout_history' = IF roll THEN <<>> ELSE history
        /\ contributors_count' = IF roll THEN 0 ELSE contributors_count
        /\ contribution_cycle' = IF roll THEN contribution_cycle + 1 ELSE contribution_cycle
        /\ completed_payouts' = IF roll THEN 0 ELSE done
        /\ ret' = Result("approve_request", invoker, caller, 0, "Ok")
        /\ paid_out' = paid_out + amount
        /\ paid_seq' = Append(paid_seq, requester)
        /\ cycle_contributed' = IF roll THEN {} ELSE cycle_contributed
        /\ quota_changed' = (quota_changed /\ queue # <<>>)
        /\ UNCHANGED <<total_supply, balance, min_amount, owner, max_contributors>>
        /\ UNCHANGED <<received, arrival>>

approve_request(invoker, caller, transfer_ok) ==
    /\ only_contributed' = FALSE
    /\ IF ~is_owner(caller)
       THEN /\ ret' = Result("approve_request", invoker, caller, 0, "NotContractOwner")
            /\ UNCHANGED <<ledger, ghost>>
       ELSE IF requests = <<>> \/ (transfer_ok /\ contributors = <<>>)
       THEN \* requests[0] or contributors.remove(0) out of bounds: the call traps
            /\ ret' = Result("approve_request", invoker, caller, 0, "Panic")
            /\ UNCHANGED <<ledger, ghost>>
       ELSE IF transfer_ok
       THEN approve_transfer_ok(invoker, caller)
       ELSE approve_transfer_failed(invoker, caller)

\* ------------------------------------------------------------------- Next
Next ==
    \/ \E caller \in Accounts, new_max \in Quotas : set_max_contributors(caller, new_max)
    \/ \E caller \in Accounts, value \in Values : contribute(caller, value)
    \/ \E caller \in Accounts : request_token(caller)
    \/ \E invoker \in Accounts, caller \in Accounts, transfer_ok \in BOOLEAN :
           approve_request(invoker, caller, transfer_ok)
    \/ next_contribution_cycle

Spec == Init /\ [][Next]_vars

TypeOK ==
    /\ total_supply \in Nat
    /\ contributors \in Seq(Accounts)
    /\ contributors_count \in Nat
    /\ completed_payouts \in Nat
    /\ max_contributors \in Quotas
    /\ contribution_cycle \in 1..MaxCycle
    /\ Len(requests) <= MaxRequests
    /\ owner \in Accounts

\* ------------------------------------------- the payment phase, run fairly
\* The ledger right after the owner set the quota to k and k distinct
\* accounts each contributed min_amount: contributors_count = quota >= 1.
ContributionOrders ==
    {order \in UNION {[1..k -> Accounts] : k \in 1..MaxQuota} :
        \A i, j \in DOMAIN order : i # j => order[i] # order[j]}

LiveInit ==
    \E order \in ContributionOrders :
        LET k == Len(order)
            callers == {order[i] : i \in 1..k}
        IN  /\ total_supply = k * MinAmount
            /\ address_to_amount_funded = [a \in callers |-> <<MinAmount, TRUE>>]
            /\ contributed = [a \in callers |-> TRUE]
            /\ balance = [i \in 1..k |-> <<order[i], MinAmount>>]
            /\ min_amount = MinAmount
            /\ owner = Deployer
            /\ contributors = order
            /\ contributors_count = k
            /\ requests = <<>>
            /\ completed_payouts = 0
            /\ payout_history = <<>>
            /\ max_contributors = k
            /\ contribution_cycle = 1
            /\ ret = Result("contribute", order[k], NoAccount, MinAmount, "Ok")
            /\ received = k * MinAmount
            /\ paid_out = 0
            /\ arrival = order
            /\ paid_seq = <<>>
            /\ cycle_contributed = callers
            /\ quota_changed = FALSE
            /\ only_contributed = FALSE

\* env().transfer succeeds when the funds the contract holds, what it received
\* less what it paid out, cover the amount of the first pending request
transfer_covered == requests # <<>> /\ requests[1][2] <= received - paid_out

\* the head of the queue calls request_token
HeadRequests == contributors # <<>> /\ request_token(contributors[1])

\* the owner calls approve_request
OwnerApproves == approve_request(owner, owner, transfer_covered)

\* no contribute and no set_max_contributors call any more
LiveNext ==
    \/ \E caller \in Accounts : request_token(caller)
    \/ \E invoker \in Accounts, caller \in Accounts :
           approve_request(invoker, caller, transfer_covered)
    \/ next_contribution_cycle

LiveSpec ==
    /\ LiveInit
    /\ [][LiveNext]_vars
    /\ WF_vars(HeadRequests)
    /\ WF_vars(OwnerApproves)

\* ================================================================= claims

\* C1: when the transfer fails in approve_request (owner passed, a request
\* pending) the call returns TransferError and the whole storage is what it
\* was before the call, so the request is still pending.
C1_TransferFailureKeepsState ==
    [][(ret'.op = "approve_request" /\ ret'.result = "TransferError")
          => /\ ret'.arg = owner
             /\ requests # <<>>
             /\ ledger' = ledger]_vars

C1_Witness ==
    /\ ret.op = "approve_request"
    /\ ret.result = "TransferError"
    /\ requests # <<>>
    /\ contributors # <<>>

\* C2 (as claimed): an approve_request invoked by an account other than the
\* owner never succeeds and leaves the queue and the payout history as they
\* were: it causes no transfer, no dequeue and no history entry.
C2_NonOperatorCannotApprove ==
    [][(ret'.op = "approve_request" /\ ret'.caller # owner)
          => /\ ret'.result # "Ok"
             /\ contributors' = contributors
             /\ payout_history' = payout_history
             /\ paid_seq' = paid_seq]_vars

\* C3 (as claimed): every successful approve_request shortens the queue by
\* one, raises completed_payouts by one and appends the paid request to the
\* payout history.
C3_Original ==
    [][(ret'.op = "approve_request" /\ ret'.result = "Ok")
          => /\ Len(contributors') = Len(contributors) - 1
             /\ completed_payouts' = completed_payouts + 1
             /\ payout_history' = Append(payout_history, requests[1])]_vars

\* C3 (amended): every successful approve_request shortens the queue by
\* one; when the payout does not complete the cycle (history length + 1 #
\* contributors_count) completed_payouts rises by one and the history gains
\* the first pending request (requester, pool total at request time) as its
\* last entry; when it completes the cycle the rollover of the same call
\* leaves completed_payouts at 0 and the history empty.
C3_ApproveEffect ==
    [][(ret'.op = "approve_request" /\ ret'.result = "Ok")
          => /\ Len(contributors') = Len(contributors) - 1
             /\ IF Len(payout_history) + 1 # contributors_count
                THEN /\ completed_payouts' = completed_payouts + 1
                     /\ payout_history' = Append(payout_history, requests[1])
                ELSE /\ completed_payouts' = 0
                     /\ payout_history' = <<>>]_vars

C3_Witness ==
    /\ ret.op = "approve_request"
    /\ ret.result = "Ok"
    /\ completed_payouts = 1
    /\ Len(payout_history) = 1
    /\ contributors # <<>>

\* C4 (as claimed): the pool total is what was contributed minus what was
\* paid out.
C4_PoolTotalIsHeldFunds == get_total_supply = received - paid_out

\* C5: payouts follow the order of contribution.  The accepted contributors
\* are, in order, those already paid followed by the queue, so the next
\* requester is the earliest contributor not yet paid; a contribute leaves
\* the head of a non-empty queue alone; a successful approve_request pays
\* the head of the queue.
FifoOrder ==
    /\ arrival = paid_seq \o contributors
    /\ get_next_requester =
           IF Len(paid_seq) < Len(arrival) THEN arrival[Len(paid_seq) + 1] ELSE NoAccount

C5_Fifo ==
    [][/\ FifoOrder'
       /\ (ret'.op = "contribute" /\ contributors # <<>>)
              => get_next_requester' = get_next_requester
       /\ (ret'.op = "approve_request" /\ ret'.result = "Ok")
              => /\ paid_seq' = Append(paid_seq, contributors[1])
                 /\ contributors' = Tail(contributors)]_vars

C5_Witness ==
    /\ Len(paid_seq) = 2
    /\ contributors # <<>>
    /\ ret.op = "approve_request"
    /\ ret.result = "Ok"

C7_QueueWithinQuota ==
    ~quota_changed
        => /\ Len(contributors) <= max_contributors
           /\ contributors_count <= max_contributors

\* C8 (as claimed): at most one request is pending, and request_token adds
\* one only when none is pending and the caller is the head of the queue.
C8_AtMostOnePending ==
    [][/\ Len(requests') <= 1
       /\ (ret'.op = "request_token" /\ ret'.result = "Ok")
              => /\ requests = <<>>
                 /\ contributors # <<>>
                 /\ ret'.caller = contributors[1]]_vars

\* C9: when contributors_count equals the quota, request_token succeeds for
\* the head of the queue alone and appends (head, pool total) to the pending
\* requests; every other caller, and every caller when the queue is empty,
\* gets NotNextContributor and the storage is unchanged.
C9_OnlyHeadMayRequest ==
    [][(ret'.op = "request_token" /\ contributors_count = max_contributors)
          => IF contributors # <<>> /\ ret'.caller = contributors[1]
             THEN /\ ret'.result = "Ok"
                  /\ requests' = Append(requests, <<contributors[1], total_supply>>)
                  /\ <<total_supply, address_to_amount_funded, contributed, balance,
                       min_amount, owner, contributors, contributors_count,
                       completed_payouts, payout_history, max_contributors,
                       contribution_cycle>>'
                       = <<total_supply, address_to_amount_funded, contributed, balance,
                           min_amount, owner, contributors, contributors_count,
                           completed_payouts, payout_history, max_contributors,
                           contribution_cycle>>
             ELSE /\ ret'.result = "NotNextContributor"
                  /\ ledger' = ledger]_vars

C9_Witness ==
    /\ ret.op = "request_token"
    /\ ret.result = "Ok"
    /\ Len(contributors) = 2
    /\ ret.caller = contributors[1]
    /\ requests = <<<<contributors[1], total_supply>>>>

\* C10: request_token returns NotPaymentPhase and changes nothing whenever
\* contributors_count differs from the quota, below it or above it, for
\* every caller, the head of the queue included.
C10_NotPaymentPhase ==
    [][(ret'.op = "request_token" /\ contributors_count # max_contributors)
          => /\ ret'.result = "NotPaymentPhase"
             /\ ledger' = ledger]_vars

C10_Witness ==
    /\ ret.op = "request_token"
    /\ ret.result = "NotPaymentPhase"
    /\ contributors_count > max_contributors
    /\ contributors # <<>>
    /\ ret.caller = contributors[1]

\* C11: contribution_cycle starts at 1, never decreases, and changes only in
\* next_contribution_cycle, called directly or at the end of a successful
\* approve_request: it rises by exactly 1 exactly when, as
\* next_contribution_cycle runs, all_paid() holds and the payout history is
\* as long as contributors_count; otherwise next_contribution_cycle changes
\* nothing.
C11_CycleCounter ==
    /\ contribution_cycle = 1
    /\ [][/\ contribution_cycle' >= contribution_cycle
          /\ contribution_cycle' # contribution_cycle
                 => \/ ret'.op = "next_contribution_cycle"
                    \/ (ret'.op = "approve_request" /\ ret'.result = "Ok")
          /\ ret'.op = "next_contribution_cycle"
                 => IF all_paid /\ Len(payout_history) = contributors_count
                    THEN contribution_cycle' = contribution_cycle + 1
                    ELSE ledger' = ledger
          /\ (ret'.op = "approve_request" /\ ret'.result = "Ok")
                 => contribution_cycle' =
                        IF /\ all_paid_in(Tail(contributors), address_to_amount_funded)
                           /\ Len(payout_history) + 1 = contributors_count
                        THEN contribution_cycle + 1
                        ELSE contribution_cycle]_vars

C11_Witness ==
    /\ ret.op = "next_contribution_cycle"
    /\ contribution_cycle = 2
    /\ contributors # <<>>
    /\ payout_history # <<>>

\* C12: the scenario quota = 1, Alice contributes an accepted amount v, Alice
\* requests the payout, the operator approves and the transfer succeeds.
\* ScenarioBeforeApprove is the state the first three calls lead to from a
\* fresh ledger; ScenarioApprove is the operator's successful approval.
ScenarioBeforeApprove ==
    /\ contribution_cycle = 1
    /\ max_contributors = 1
    /\ arrival = <<"alice">>
    /\ paid_seq = <<>>
    /\ contributors = <<"alice">>
    /\ contributors_count = 1
    /\ total_supply >= min_amount
    /\ requests = <<<<"alice", total_supply>>>>
    /\ payout_history = <<>>
    /\ completed_payouts = 0

ScenarioApprove ==
    /\ ScenarioBeforeApprove
    /\ ret'.op = "approve_request"
    /\ ret'.caller = owner
    /\ ret'.arg = owner
    /\ ret'.result = "Ok"

\* C12 (as claimed): after the scenario the queue is empty, completed_payouts
\* is 1, the payout history is [(Alice, v)] and the cycle counter is 2.
C12_Original ==
    [][ScenarioApprove
          => /\ contributors' = <<>>
             /\ completed_payouts' = 1
             /\ payout_history' = <<<<"alice", total_supply>>>>
             /\ contribution_cycle' = 2]_vars

\* C12 (amended): after the scenario v has been transferred to Alice, the
\* queue is empty and the cycle counter is 2; the rollover of the same call
\* has put completed_payouts back to 0 and emptied the payout history.
C12_Scenario ==
    [][ScenarioApprove
          => /\ paid_seq' = <<"alice">>
             /\ paid_out' = total_supply
             /\ contributors' = <<>>
             /\ completed_payouts' = 0
             /\ payout_history' = <<>>
             /\ contribution_cycle' = 2]_vars

C12_Witness ==
    /\ ret.op = "approve_request"
    /\ ret.caller = owner
    /\ ret.result = "Ok"
    /\ max_contributors = 1
    /\ arrival = <<"alice">>
    /\ paid_seq = <<"alice">>
    /\ paid_out = total_supply
    /\ contribution_cycle = 2

\* C13: from a fresh ledger, as long as nothing but contribute calls by
\* pairwise distinct accounts with at least min_amount are made, each call
\* succeeds, the pool total is the sum of the amounts, total_contributors is
\* the number of distinct callers and the queue lists the callers in call
\* order.
CallersSoFar == {arrival[i] : i \in 1..Len(arrival)}

C13_DistinctContributions ==
    [][/\ only_contributed'
              => /\ get_total_supply' = received'
                 /\ total_contributors' = Cardinality(CallersSoFar')
                 /\ Len(arrival') = Cardinality(CallersSoFar')
                 /\ contributors' = arrival'
       /\ (/\ only_contributed
           /\ ret'.op = "contribute"
           /\ ret'.caller \notin CallersSoFar
           /\ ret'.value >= min_amount)
              => /\ ret'.result = "Ok"
                 /\ received' = received + ret'.value
                 /\ arrival' = Append(arrival, ret'.caller)
                 /\ only_contributed']_vars

C13_Witness ==
    /\ only_contributed
    /\ Len(arrival) = 3
    /\ total_supply = 3 * MinAmount

\* C14 (as claimed): a contribute with less than min_amount fails with
\* LowAmount and changes nothing, whoever calls and in whatever state.
C14_Original ==
    [][(ret'.op = "contribute" /\ ret'.value < min_amount)
          => /\ ret'.result = "LowAmount"
             /\ ledger' = ledger]_vars

\* C14 (amended): a contribute with less than min_amount never succeeds and
\* changes nothing; it fails with LowAmount when the caller has no
\* contributed marker and with AlreadyContributed when the caller has one,
\* that test coming first.
C14_LowAmountRejected ==
    [][(ret'.op = "contribute" /\ ret'.value < min_amount)
          => /\ ret'.result =
                    IF ret'.caller \in DOMAIN contributed
                    THEN "AlreadyContributed"
                    ELSE "LowAmount"
             /\ ledger' = ledger]_vars

C14_Witness ==
    /\ ret.op = "contribute"
    /\ ret.value < min_amount
    /\ ret.result = "AlreadyContributed"
    /\ ret.caller \in DOMAIN contributed
    /\ ret.caller \notin {contributors[i] : i \in 1..Len(contributors)}

\* C15 (as claimed): approve_request with the owner passed and no request
\* pending returns the error NoPendingRequest and changes nothing.
C15_NoPendingRequestError ==
    [][(ret'.op = "approve_request" /\ ret'.arg = owner /\ requests = <<>>)
          => /\ ret'.result = "NoPendingRequest"
             /\ ledger' = ledger]_vars

\* C17: set_max_contributors called by the owner succeeds, whatever the new
\* value and the queue length, makes get_max_contributors return the new
\* value and changes nothing else; called by anyone else it returns
\* NotContractOwner and changes nothing.
C17_SetQuota ==
    [][ret'.op = "set_max_contributors"
          => IF ret'.caller = owner
             THEN /\ ret'.result = "Ok"
                  /\ get_max_contributors' = ret'.value
                  /\ <<total_supply, address_to_amount_funded, contributed, balance,
                       min_amount, owner, contributors, contributors_count, requests,
                       completed_payouts, payout_history, contribution_cycle>>'
                       = <<total_supply, address_to_amount_funded, contributed, balance,
                           min_amount, owner, contributors, contributors_count, requests,
                           completed_payouts, payout_history, contribution_cycle>>
             ELSE /\ ret'.result = "NotContractOwner"
                  /\ ledger' = ledger]_vars

C17_Witness ==
    /\ ret.op = "set_max_contributors"
    /\ ret.result = "Ok"
    /\ ret.value = 1
    /\ max_contributors = 1
    /\ Len(contributors) = 2

\* C16 (as claimed): from a state with contributors_count = quota >= 1, with
\* no further contribute or set_max_contributors call, the head of the queue
\* requesting and the owner approving under weak fairness, and the transfer
\* succeeding whenever the funds held cover the amount, eventually everyone
\* queued has been paid, the queue is empty and the cycle counter has risen.
C16_CycleCompletes ==
    <>(/\ contributors = <<>>
       /\ paid_seq = arrival
       /\ contribution_cycle > 1)

\* the payment-phase start states are states of the ledger: reached from
\* construction (the last call's record aside)
LiveInitReached ==
    /\ contribution_cycle = 1
    /\ max_contributors = 2
    /\ contributors = <<"bob", "charlie">>
    /\ arrival = contributors
    /\ contributors_count = 2
    /\ total_supply = 2 * MinAmount
    /\ requests = <<>>
    /\ paid_seq = <<>>
    /\ quota_changed = FALSE
    /\ ret = Result("contribute", "charlie", NoAccount, MinAmount, "Ok")

\* C18 (as claimed): right after every rollover the participant records, the
\* queue and the payout history are empty, contributors_count,
\* completed_payouts and the pool total are 0, and owner and min_amount are
\* what they were.
C18_RolloverResets ==
    [][contribution_cycle' = contribution_cycle + 1
          => /\ address_to_amount_funded' = EmptyMapping
             /\ contributors' = <<>>
             /\ payout_history' = <<>>
             /\ contributors_count' = 0
             /\ completed_payouts' = 0
             /\ get_total_supply' = 0
             /\ owner' = owner
             /\ min_amount' = min_amount]_vars

\* C19 (as claimed): after a successful contribute the caller's record holds
\* the amount and paid = false, so all_paid() is false while the caller is
\* queued and unpaid.
C19_ContributeMarksUnpaid ==
    [][(ret'.op = "contribute" /\ ret'.result = "Ok")
          => /\ MappingHas(address_to_amount_funded', ret'.caller)
             /\ address_to_amount_funded'[ret'.caller] = <<ret'.value, FALSE>>
             /\ ~all_paid']_vars

\* C20 (as claimed): balance_of(a) is the amount in a's participant record,
\* 0 when a has none, and so 0 for every account right after a rollover.
C20_BalanceOfIsRecord ==
    [][/\ \A a \in Accounts :
              balance_of(a)' =
                  IF MappingHas(address_to_amount_funded', a)
                  THEN address_to_amount_funded'[a][1]
                  ELSE 0
       /\ contribution_cycle' = contribution_cycle + 1
              => \A a \in Accounts : balance_of(a)' = 0]_vars

\* C21: when the queue head has requested more than once before an approval,
\* the next successful approve_request pays the amount recorded by the most
\* recent request (the last pending entry), not the amount of the first.
C21_LatestRequestPaid ==
    [][(ret'.op = "approve_request" /\ ret'.result = "Ok" /\ Len(requests) >= 2)
          => paid_out' - paid_out = requests[Len(requests)][2]]_vars

\* C22: every rollover happens with the queue empty and with one payout-history
\* entry for each contribution accepted during the ending cycle; no rollover
\* occurs while a contributor of the cycle is still queued.
C22_RolloverOnlyWhenAllPaid ==
    [][(contribution_cycle' # contribution_cycle)
          => LET history == IF ret'.op = "approve_request"
                            THEN Append(payout_history, requests[1])
                            ELSE payout_history
             IN  /\ contributors' = <<>>
                 /\ Len(history) = Cardinality(cycle_contributed)
                 /\ {history[i][1] : i \in 1..Len(history)} = cycle_contributed
                 /\ \A a \in cycle_contributed :
                        \A i \in 1..Len(contributors') : contributors'[i] # a]_vars

C22_Witness ==
    /\ ret.op = "approve_request"
    /\ ret.result = "Ok"
    /\ contribution_cycle = 2
    /\ Len(paid_seq) = 2
    /\ paid_seq[1] # paid_seq[2]
    /\ contributors = <<>>

\* C23: in every reachable state the queue length plus the payout-history
\* length equals the participant count.
C23_QueuePlusHistoryIsCount ==
    Len(contributors) + Len(payout_history) = contributors_count

C23_Witness ==
    /\ Len(contributors) = 1
    /\ Len(payout_history) = 2
    /\ contributors_count = 3
    /\ quota_changed

\* C24: every pending request names the current queue head: when the request
\* list is non-empty the queue is non-empty and each pending entry's identity
\* is the queue's first element.
C24_PendingNamesHead ==
    requests # <<>>
        => /\ contributors # <<>>
           /\ \A i \in 1..Len(requests) : requests[i][1] = contributors[1]

C24_Witness ==
    /\ Len(requests) = 2
    /\ Len(contributors) >= 2
    /\ payout_history # <<>>

\* C26: in every reachable state the completed-payout counter equals the
\* length of the payout history.
C26_CompletedIsHistoryLength ==
    completed_payouts = Len(payout_history)

C26_Witness ==
    /\ completed_payouts = 2
    /\ Len(payout_history) = 2
    /\ contribution_cycle = 2

====
